---------------------------- MODULE Spec2Model ----------------------------
(***************************************************************************)
(* Model of the Forex P/L Tracker page (src/app.py).                       *)
(*                                                                         *)
(* The page is a Streamlit script: every interaction (a button click, a   *)
(* changed widget, st.rerun()) executes the script once from the top.  A   *)
(* run reads the ledger (data/tracker.csv) and the settings               *)
(* (data/settings.json) from disk, executes the handler of the one button  *)
(* that was clicked, and either ends in st.rerun() or reaches the metrics  *)
(* at the bottom and renders them.  The state that survives a run is the   *)
(* two files, their backups and the widget state (selected account,        *)
(* uploaded file).  Each action below is one whole run.                    *)
(***************************************************************************)
EXTENDS Integers, Sequences, FiniteSets, TLC

VARIABLES
    csv_file,          \* data rows of data/tracker.csv, as written text fields
    settings_file,     \* data/settings.json: [accounts, account_cfg]
    selected_account,  \* value of the "Select account" selectbox
    up,                \* file held by the "Import CSV" uploader (NoFile when empty)
    view,              \* outcome of the last run: the page it rendered, or the
                       \* st.rerun() that ended it
    sess               \* per session: position and in-memory df_all of a run in progress

vars == <<csv_file, settings_file, selected_account, up, view, sess>>

\* The copies backup_file() leaves under data/backups are read only when a
\* file fails to parse, which no run below produces: they are written and
\* never read, and are not part of the state.

---------------------------------------------------------------------------
(* Bounds and input domains *)

MaxRows == 2

Sessions == {1, 2}

\* Python None and pandas NaN / NaT, kept apart from every text value.
None == "<None>"
NaN  == "<NaN>"

\* Text typed into "Add account": a name already registered by default, a
\* new name, and a blank input.
NameInputs == {"Account A", "NA", " "}

\* Values of the "Date" input as strftime("%Y-%m-%d") writes them.
DateInputs == {"2024-01-01", "2024-01-02"}

\* Values of the "P/L Amount" input (whole dollars).
PLInputs == {100}

\* Values of the two balance inputs (whole dollars).
SBInputs == {500}
TBInputs == {1000}

---------------------------------------------------------------------------
(* Program constants *)

DEFAULT_ACCOUNTS == <<"Account A", "Account B">>

DefaultCfg == [starting_balance |-> 1000, target_balance |-> 2000]

RequiredColumns == {"Date", "Account", "PL"}

\* Strings pandas.read_csv turns into NaN by default (keep_default_na=True).
NA_VALUES == {"", "#N/A", "#N/A N/A", "#NA", "-1.#IND", "-1.#QNAN", "-NaN", "-nan",
              "1.#IND", "1.#QNAN", "<NA>", "N/A", "NA", "NULL", "NaN", "None",
              "n/a", "nan", "null"}

---------------------------------------------------------------------------
(* Files a user may drop on the uploader *)

NoFile == [columns |-> {}, rows |-> <<>>]

\* A ledger exported elsewhere: one row carries a Date that is no date.
LedgerFile ==
    [columns |-> {"Date", "Account", "PL"},
     rows    |-> << [Date |-> "2024-01-02", Account |-> "Account A", PL |-> -40],
                    [Date |-> "soon",       Account |-> "Account A", PL |-> 50] >>]

\* A file without the PL column.
NoPLFile ==
    [columns |-> {"Date", "Account"},
     rows    |-> << [Date |-> "2024-01-01", Account |-> "Account B"] >>]

UploadFiles == {LedgerFile, NoPLFile}

---------------------------------------------------------------------------
(* Generic helpers *)

Put(f, k, v) == [x \in (DOMAIN f) \cup {k} |-> IF x = k THEN v ELSE f[x]]

Drop(f, k) == [x \in (DOMAIN f) \ {k} |-> f[x]]

Range(s) == {s[i] : i \in 1..Len(s)}

RemoveAt(s, i) == [j \in 1..(Len(s) - 1) |-> IF j < i THEN s[j] ELSE s[j + 1]]

RECURSIVE SumPL(_)
SumPL(s) == IF s = <<>> THEN 0 ELSE s[1].PL + SumPL(Tail(s))

Clip(x, lo, hi) == IF x < lo THEN lo ELSE IF x > hi THEN hi ELSE x

---------------------------------------------------------------------------
(* CSV and JSON conversions *)

\* pandas.read_csv on one text field: the default NA strings become NaN.
ReadField(t) == IF t \in NA_VALUES THEN NaN ELSE t

\* DataFrame.to_csv on one value: None and NaN are written as the empty field.
WriteField(v) == IF v \in {None, NaN} THEN "" ELSE v

\* pd.read_csv(file): every text column goes through the NA conversion; PL is numeric.
read_csv(rows) ==
    [i \in 1..Len(rows) |->
        [f \in DOMAIN rows[i] |-> IF f = "PL" THEN rows[i][f] ELSE ReadField(rows[i][f])]]

\* df.to_csv(file, index=False)
to_csv(df) ==
    [i \in 1..Len(df) |->
        [f \in DOMAIN df[i] |-> IF f = "PL" THEN df[i][f] ELSE WriteField(df[i][f])]]

\* pd.to_datetime(text, errors="coerce") as a day number; 0 stands for NaT.
to_datetime(t) ==
    CASE t = "2024-01-01" -> 1
      [] t = "2024-01-02" -> 2
      [] OTHER -> 0

\* str.strip() on the texts of NameInputs
strip(t) == IF t = " " THEN "" ELSE t

\* json.dump turns the dictionary key None into the string "null".
JsonKey(k) == IF k = None THEN "null" ELSE k

\* json.dump of account_cfg: a None key and a "null" key collide, the later
\* inserted one (None) is the one json.load keeps.
JsonCfg(cfg) ==
    [k \in {JsonKey(x) : x \in DOMAIN cfg} |->
        IF k = "null" /\ None \in DOMAIN cfg THEN cfg[None] ELSE cfg[k]]

---------------------------------------------------------------------------
(* Compute metrics (the bottom of the script) *)

\* df_all["Account"] == selected_account, row by row: nothing equals None or NaN.
Matches(row, sel) == sel # None /\ row.Account # NaN /\ row.Account = sel

RowsOf(df, sel) == SelectSeq(df, LAMBDA r : Matches(r, sel))

\* sort_values("Date") on the few rows of one account keeps equal dates in
\* ledger order.
RECURSIVE InsertByDate(_, _)
InsertByDate(r, s) ==
    IF s = <<>> THEN <<r>>
    ELSE IF to_datetime(r.Date) < to_datetime(s[1].Date) THEN <<r>> \o s
    ELSE <<s[1]>> \o InsertByDate(r, Tail(s))

RECURSIVE SortByDate(_)
SortByDate(s) ==
    IF s = <<>> THEN <<>>
    ELSE InsertByDate(s[Len(s)], SortByDate(SubSeq(s, 1, Len(s) - 1)))

\* df_acc: the selected account's rows, Date coerced, NaT rows dropped, sorted.
df_acc(df, sel) ==
    SortByDate(SelectSeq(RowsOf(df, sel), LAMBDA r : to_datetime(r.Date) # 0))

cum_profit(df, sel) == SumPL(df_acc(df, sel))

current_balance(df, sel, sb) == sb + cum_profit(df, sel)

\* Variant: the balance itself over the target balance.
pct_to_target_of_balance(df, sel, sb, tb) ==
    IF tb <= 0 THEN 0
    ELSE Clip((current_balance(df, sel, sb) * 10000) \div tb, 0, 10000)

\* pct_to_target in hundredths of a percent (0..10000).  target_profit is
\* max(tb - sb, 1e-9): with tb <= sb any gain of a dollar or more divided by
\* 1e-9 is clipped to 100, and no gain to 0.
pct_to_target(df, sel, sb, tb) ==
    LET gain == current_balance(df, sel, sb) - sb
    IN  IF tb - sb <= 0
        THEN (IF gain > 0 THEN 10000 ELSE 0)
        ELSE Clip((gain * 10000) \div (tb - sb), 0, 10000)

\* df_acc["CumPL"] shifted by the starting balance: the running balance per entry.
Balances(df, sel, sb) ==
    LET rows == df_acc(df, sel)
    IN  [i \in 1..Len(rows) |-> sb + SumPL(SubSeq(rows, 1, i))]

\* The page a run renders when it reaches the bottom: the two metrics, the
\* inputs they were computed from, and whether the sidebar shows "Import
\* failed".
Page(df, sel, sb, tb, import_failed) ==
    [rendered        |-> TRUE,
     account         |-> sel,
     sb              |-> sb,
     tb              |-> tb,
     current_balance |-> current_balance(df, sel, sb),
     pct_to_target   |-> pct_to_target(df, sel, sb, tb),
     import_failed   |-> import_failed]

\* A run that ended in st.rerun() rendered nothing; `after` names the handler
\* that asked for the rerun.  Kept with it, for the handlers whose effect is
\* compared with the state before them: pre, the ledger file as it was before
\* an add or an undo; snap, the removed account with its running balances as
\* they stood before a removal (carried on when the next run adds that same
\* account again).
NoSnap == [account |-> None, sb |-> 0, balances |-> <<>>]

Rerun(after) == [rendered |-> FALSE, after |-> after, pre |-> <<>>, snap |-> NoSnap]

---------------------------------------------------------------------------
(* Persistence helpers *)

\* load_df() on a completely written file.
load_df == read_csv(csv_file)

\* save_df(df)
save_df(df) == csv_file' = to_csv(df)

\* save_settings(settings)
save_settings(settings) ==
    settings_file' = [accounts    |-> settings.accounts,
                      account_cfg |-> JsonCfg(settings.account_cfg)]

\* settings["account_cfg"].get(selected_account, defaults)
CfgOf(settings, sel) ==
    IF sel \in DOMAIN settings.account_cfg THEN settings.account_cfg[sel] ELSE DefaultCfg

\* What the selectbox can hold for a list of options.
Selections(accounts) == IF accounts = <<>> THEN {None} ELSE Range(accounts)

---------------------------------------------------------------------------
(* Initial state: the first run on a fresh install *)

Init ==
    /\ csv_file = <<>>
    /\ settings_file = [accounts    |-> DEFAULT_ACCOUNTS,
                        account_cfg |-> [a \in Range(DEFAULT_ACCOUNTS) |-> DefaultCfg]]
    /\ selected_account = DEFAULT_ACCOUNTS[1]
    /\ up = NoFile
    /\ view = Page(<<>>, DEFAULT_ACCOUNTS[1], DefaultCfg.starting_balance,
                   DefaultCfg.target_balance, FALSE)
    /\ sess = [s \in Sessions |-> [pc |-> "idle", df_all |-> <<>>]]

---------------------------------------------------------------------------
(* The script from "Data Safety" down: import, reset, metrics *)

\* Variant: any one of the required columns is enough.
RequiredPresentAny(file) == RequiredColumns \cap file.columns # {}

\* required.issubset(set(df_new.columns))
RequiredPresent(file) == RequiredColumns \subseteq file.columns

\* df_all[df_all["Account"] != selected_account]
WithoutAccount(df, sel) == SelectSeq(df, LAMBDA r : ~Matches(r, sel))

\* Lines 168-215 of a run that got this far with df_all in memory, `file` in
\* the uploader and the number inputs at sb and tb.  reset says whether
\* RESET was the button clicked, confirm whether the confirmation box is
\* checked.
ImportResetRender(df_all, file, sel, sb, tb, reset, confirm) ==
    IF file # NoFile /\ RequiredPresent(file)
    THEN \* import accepted: saved, then st.rerun()
         /\ save_df(read_csv(file.rows))
         /\ view' = Rerun("import")
    ELSE IF reset /\ confirm
    THEN \* reset executed: saved, then st.rerun()
         /\ save_df(WithoutAccount(df_all, sel))
         /\ view' = Rerun("reset")
    ELSE \* the run reaches the metrics and renders
         /\ UNCHANGED csv_file
         /\ view' = Page(df_all, sel, sb, tb, file # NoFile)

---------------------------------------------------------------------------
(* Runs of the script, one per kind of interaction *)

\* No button: the user picks an account, or the script runs again after
\* st.rerun().
RunView(sel) ==
    LET cfg == CfgOf(settings_file, sel)
    IN  /\ sel \in Selections(settings_file.accounts)
        /\ selected_account' = sel
        /\ ImportResetRender(load_df, up, sel, cfg.starting_balance,
                             cfg.target_balance, FALSE, FALSE)
        /\ UNCHANGED <<settings_file, up, sess>>

\* Variant: the new account is listed but gets no config.
RunAddAccountNoConfig(new_acc) ==
    LET settings == settings_file
    IN  /\ strip(new_acc) # "" /\ new_acc \notin Range(settings.accounts)
        /\ save_settings(
               [accounts    |-> Append(settings.accounts, new_acc),
                account_cfg |-> settings.account_cfg])
        /\ \E s \in Selections(Append(settings.accounts, new_acc)) :
               selected_account' = s
        /\ view' = [Rerun("add_account") EXCEPT
                       !.snap = IF /\ ~view.rendered
                                   /\ view.after = "remove_account"
                                   /\ view.snap.account = new_acc
                                THEN view.snap ELSE NoSnap]
        /\ UNCHANGED <<csv_file, up, sess>>

\* "Add" in the Accounts expander, with new_acc typed in.
RunAddAccount(new_acc) ==
    LET settings == settings_file
        sel == selected_account
        cfg == CfgOf(settings, sel)
    IN  IF strip(new_acc) # "" /\ new_acc \notin Range(settings.accounts)
        THEN /\ save_settings(
                    [accounts    |-> Append(settings.accounts, new_acc),
                     account_cfg |-> Put(settings.account_cfg, new_acc, DefaultCfg)])
             /\ \E s \in Selections(Append(settings.accounts, new_acc)) :
                    selected_account' = s
             /\ view' = [Rerun("add_account") EXCEPT
                            !.snap = IF /\ ~view.rendered
                                        /\ view.after = "remove_account"
                                        /\ view.snap.account = new_acc
                                     THEN view.snap ELSE NoSnap]
             /\ UNCHANGED <<csv_file, up, sess>>
        ELSE /\ ImportResetRender(load_df, up, sel, cfg.starting_balance,
                                  cfg.target_balance, FALSE, FALSE)
             /\ UNCHANGED <<settings_file, selected_account, up, sess>>

\* list.remove(x): drops the first occurrence
ListRemove(s, x) ==
    LET i == CHOOSE j \in 1..Len(s) : s[j] = x /\ \A k \in 1..(j - 1) : s[k] # x
    IN  RemoveAt(s, i)

\* Variant: removing an account also deletes its rows from the ledger.
RunRemoveAccountCascade ==
    LET settings == settings_file
        sel == selected_account
        cfg == CfgOf(settings, sel)
    IN  /\ sel \in Range(settings.accounts)
        /\ save_settings(
               [accounts    |-> ListRemove(settings.accounts, sel),
                account_cfg |-> Drop(settings.account_cfg, sel)])
        /\ save_df(WithoutAccount(load_df, sel))
        /\ \E s \in Selections(ListRemove(settings.accounts, sel)) :
               selected_account' = s
        /\ view' = [Rerun("remove_account") EXCEPT
                       !.snap = [account  |-> sel,
                                 sb       |-> cfg.starting_balance,
                                 balances |-> Balances(load_df, sel,
                                                       cfg.starting_balance)]]
        /\ UNCHANGED <<up, sess>>

\* "Remove" in the Accounts expander.
RunRemoveAccount ==
    LET settings == settings_file
        sel == selected_account
        cfg == CfgOf(settings, sel)
    IN  IF sel \in Range(settings.accounts)
        THEN /\ save_settings(
                    [accounts    |-> ListRemove(settings.accounts, sel),
                     account_cfg |-> Drop(settings.account_cfg, sel)])
             /\ \E s \in Selections(ListRemove(settings.accounts, sel)) :
                    selected_account' = s
             /\ view' = [Rerun("remove_account") EXCEPT
                            !.snap = [account  |-> sel,
                                      sb       |-> cfg.starting_balance,
                                      balances |-> Balances(load_df, sel,
                                                            cfg.starting_balance)]]
             /\ UNCHANGED <<csv_file, up, sess>>
        ELSE /\ ImportResetRender(load_df, up, sel, cfg.starting_balance,
                                  cfg.target_balance, FALSE, FALSE)
             /\ UNCHANGED <<settings_file, selected_account, up, sess>>

\* "Save Account Config" with the balance inputs at sb and tb.
RunSaveConfig(sb, tb) ==
    LET settings == settings_file
        sel == selected_account
    IN  /\ save_settings(
               [accounts    |-> settings.accounts,
                account_cfg |-> Put(settings.account_cfg, sel,
                                    [starting_balance |-> sb, target_balance |-> tb])])
        /\ ImportResetRender(load_df, up, sel, sb, tb, FALSE, FALSE)
        /\ UNCHANGED <<selected_account, up, sess>>

\* new_row of the add handler
NewRow(entry_date, sel, pl_value) ==
    [Date |-> entry_date, Account |-> sel, PL |-> pl_value]

\* "Add" under Add Entry, with the Date and P/L inputs set.
RunAddEntry(entry_date, pl_value) ==
    LET sel == selected_account
        df_all == Append(load_df, NewRow(entry_date, sel, pl_value))
    IN  /\ Len(csv_file) < MaxRows
        /\ save_df(df_all)
        /\ view' = [Rerun("add_entry") EXCEPT !.pre = csv_file]
        /\ UNCHANGED <<settings_file, selected_account, up, sess>>

\* Variant: the account's row with the latest date, the last of them on a tie.
UndoIndexByDate(df, sel) ==
    LET idx == {i \in 1..Len(df) : Matches(df[i], sel)}
        later(i, j) == \/ to_datetime(df[i].Date) > to_datetime(df[j].Date)
                       \/ to_datetime(df[i].Date) = to_datetime(df[j].Date) /\ i >= j
    IN  IF idx = {} THEN 0 ELSE CHOOSE i \in idx : \A j \in idx : later(i, j)

\* df_all[mask].tail(1).index: the position of the last row of the account
\* in ledger order, 0 when it has none.
UndoIndex(df, sel) ==
    LET idx == {i \in 1..Len(df) : Matches(df[i], sel)}
    IN  IF idx = {} THEN 0 ELSE CHOOSE i \in idx : \A j \in idx : j <= i

\* "Undo Last Entry"
RunUndo ==
    LET settings == settings_file
        sel == selected_account
        cfg == CfgOf(settings, sel)
        df_all == load_df
        idx == UndoIndex(df_all, sel)
    IN  IF idx # 0
        THEN /\ save_df(RemoveAt(df_all, idx))
             /\ view' = [Rerun("undo") EXCEPT !.pre = csv_file]
             /\ UNCHANGED <<settings_file, selected_account, up, sess>>
        ELSE /\ ImportResetRender(df_all, up, sel, cfg.starting_balance,
                                  cfg.target_balance, FALSE, FALSE)
             /\ UNCHANGED <<settings_file, selected_account, up, sess>>

\* "RESET", with the confirmation box checked or not.
RunReset(confirm) ==
    LET settings == settings_file
        sel == selected_account
        cfg == CfgOf(settings, sel)
    IN  /\ ImportResetRender(load_df, up, sel, cfg.starting_balance,
                             cfg.target_balance, TRUE, confirm)
        /\ UNCHANGED <<settings_file, selected_account, up, sess>>

\* A file is dropped on the "Import CSV" uploader; it stays there for the
\* following runs.
RunUpload(file) ==
    LET settings == settings_file
        sel == selected_account
        cfg == CfgOf(settings, sel)
    IN  /\ up' = file
        /\ ImportResetRender(load_df, file, sel, cfg.starting_balance,
                             cfg.target_balance, FALSE, FALSE)
        /\ UNCHANGED <<settings_file, selected_account, sess>>

\* The user clears the uploader.
RunClearUpload ==
    LET settings == settings_file
        sel == selected_account
        cfg == CfgOf(settings, sel)
    IN  /\ up # NoFile
        /\ up' = NoFile
        /\ ImportResetRender(load_df, NoFile, sel, cfg.starting_balance,
                             cfg.target_balance, FALSE, FALSE)
        /\ UNCHANGED <<settings_file, selected_account, sess>>

---------------------------------------------------------------------------
(* One session *)

Next ==
    \/ \E sel \in Range(DEFAULT_ACCOUNTS) \cup NameInputs \cup {None} : RunView(sel)
    \/ \E new_acc \in NameInputs : RunAddAccount(new_acc)
    \/ RunRemoveAccount
    \/ \E sb \in SBInputs, tb \in TBInputs : RunSaveConfig(sb, tb)
    \/ \E d \in DateInputs, pl \in PLInputs : RunAddEntry(d, pl)
    \/ RunUndo
    \/ \E confirm \in BOOLEAN : RunReset(confirm)
    \/ \E file \in UploadFiles : RunUpload(file)
    \/ RunClearUpload

Spec == Init /\ [][Next]_vars

---------------------------------------------------------------------------
(* Two sessions on the same data directory.  A run reads the ledger at its
   top (line 85) and a handler further down rewrites the whole file from the
   frame the run holds; runs of different sessions interleave between the
   two. *)

\* df_all = load_df()
SLoad(s) ==
    /\ sess[s].pc = "idle"
    /\ sess' = [sess EXCEPT ![s] = [pc |-> "loaded", df_all |-> load_df]]
    /\ UNCHANGED <<csv_file, settings_file, selected_account, up, view>>

SDone(s) == sess' = [sess EXCEPT ![s] = [pc |-> "idle", df_all |-> <<>>]]

\* the add handler of session s, its selectbox at sel
SAddEntry(s, sel, entry_date, pl_value) ==
    /\ sess[s].pc = "loaded"
    /\ Len(sess[s].df_all) < MaxRows
    /\ save_df(Append(sess[s].df_all, NewRow(entry_date, sel, pl_value)))
    /\ SDone(s)
    /\ UNCHANGED <<settings_file, selected_account, up, view>>

\* the undo handler of session s
SUndo(s, sel) ==
    LET df_all == sess[s].df_all
        idx == UndoIndex(df_all, sel)
    IN  /\ sess[s].pc = "loaded"
        /\ IF idx # 0 THEN save_df(RemoveAt(df_all, idx)) ELSE UNCHANGED csv_file
        /\ SDone(s)
        /\ UNCHANGED <<settings_file, selected_account, up, view>>

\* the RESET handler of session s, confirmation box checked
SReset(s, sel) ==
    /\ sess[s].pc = "loaded"
    /\ save_df(WithoutAccount(sess[s].df_all, sel))
    /\ SDone(s)
    /\ UNCHANGED <<settings_file, selected_account, up, view>>

\* a run of session s with no button clicked
SRender(s) ==
    /\ sess[s].pc = "loaded"
    /\ SDone(s)
    /\ UNCHANGED <<csv_file, settings_file, selected_account, up, view>>

NextConc ==
    \/ \E s \in Sessions : SLoad(s)
    \/ \E s \in Sessions, sel \in Range(DEFAULT_ACCOUNTS), d \in DateInputs,
          pl \in PLInputs : SAddEntry(s, sel, d, pl)
    \/ \E s \in Sessions, sel \in Range(DEFAULT_ACCOUNTS) : SUndo(s, sel)
    \/ \E s \in Sessions, sel \in Range(DEFAULT_ACCOUNTS) : SReset(s, sel)
    \/ \E s \in Sessions : SRender(s)

SpecConc == Init /\ [][NextConc]_vars

---------------------------------------------------------------------------
(* Properties *)

\* The rows of the ledger file that carry account b in their Account field.
RowsOnDisk(file, b) == SelectSeq(file, LAMBDA r : r.Account = b)

Registered == Range(settings_file.accounts)

After(handler) == ~view.rendered /\ view.after = handler

\* C1: the current balance rendered for the selected account is its starting
\* balance plus the sum of PL over all rows of the ledger file whose Account
\* is that account.
C1_BalanceSumsAllRows ==
    view.rendered =>
        view.current_balance = view.sb + SumPL(RowsOnDisk(csv_file, view.account))

C3_RemoveKeepsLedger ==
    [][(~view'.rendered /\ view'.after = "remove_account")
          => /\ csv_file' = csv_file
             /\ Range(settings_file'.accounts)
                  = Range(settings_file.accounts) \ {selected_account}
             /\ DOMAIN settings_file'.account_cfg
                  = DOMAIN settings_file.account_cfg \ {selected_account}
             /\ \A a \in DOMAIN settings_file'.account_cfg :
                    settings_file'.account_cfg[a] = settings_file.account_cfg[a]]_vars

\* C3's case: an account was just removed and the ledger holds a row of it.
C3_Witness ==
    /\ After("remove_account")
    /\ view.snap.account \notin Registered
    /\ RowsOnDisk(csv_file, view.snap.account) # <<>>

\* An account was removed and the very next run added it again.
ReAdded == After("add_account") /\ view.snap.account # None

\* C4 as stated: after removing an account and adding it again its series
\* (running balance per entry, current balance) is what it was before.
C4_ReAddRestoresSeries ==
    ReAdded =>
        LET acc == view.snap.account
            sb  == CfgOf(settings_file, acc).starting_balance
        IN  /\ Balances(load_df, acc, sb) = view.snap.balances
            /\ current_balance(load_df, acc, sb)
                 = view.snap.sb + cum_profit(load_df, acc)

\* C4 as amended: after removing an account and adding it again its entries
\* are the same and its config is the default one, so each running balance
\* is the one before the removal moved by the difference between the default
\* starting balance 1000 and the starting balance saved before.
C4_ReAddKeepsEntriesResetsConfig ==
    ReAdded =>
        LET acc == view.snap.account
            sb  == CfgOf(settings_file, acc).starting_balance
            now == Balances(load_df, acc, sb)
        IN  /\ acc \in DOMAIN settings_file.account_cfg
            /\ settings_file.account_cfg[acc]
                 = [starting_balance |-> 1000, target_balance |-> 2000]
            /\ Len(now) = Len(view.snap.balances)
            /\ \A i \in 1..Len(now) :
                   now[i] - 1000 = view.snap.balances[i] - view.snap.sb

\* C4's case: the account added again has an entry and had a saved starting
\* balance other than the default.
C4_Witness ==
    /\ ReAdded
    /\ view.snap.balances # <<>>
    /\ view.snap.sb # 1000

\* C5: the run started by dropping a file without all three required
\* columns on the uploader leaves the ledger file as it was and renders the
\* page with "Import failed".
C5_BadImportRejected ==
    [][\A file \in UploadFiles :
          (RunUpload(file) /\ ~(RequiredColumns \subseteq file.columns))
              => /\ csv_file' = csv_file
                 /\ view'.rendered
                 /\ view'.import_failed]_vars

\* C5's case: a file without the PL column sits in the uploader, its import
\* was reported as failed, and the ledger still holds rows.
C5_Witness ==
    /\ up = NoPLFile
    /\ view.rendered
    /\ view.import_failed
    /\ csv_file # <<>>

\* C6: with an account selected, an add entry followed at once by an undo
\* leaves the ledger file as it was before the add.
C6_UndoInvertsAdd ==
    [][(After("add_entry") /\ selected_account # None /\ RunUndo)
          => csv_file' = view.pre]_vars

\* C7 as stated: progress is the current balance over the target, clamped
\* to [0, 1] (here in hundredths of a percent).
C7_ProgressIsBalanceOverTarget ==
    (view.rendered /\ view.tb # 0) =>
        view.pct_to_target = Clip((view.current_balance * 10000) \div view.tb, 0, 10000)

\* C7 as amended: with the target above the starting balance, progress is
\* the gain over the starting balance divided by the distance from starting
\* balance to target, clamped to [0, 1] (here in hundredths of a percent).
C7_ProgressIsGainOverDistance ==
    (view.rendered /\ view.tb > view.sb) =>
        view.pct_to_target =
            Clip(((view.current_balance - view.sb) * 10000) \div (view.tb - view.sb),
                 0, 10000)

\* C7's case: starting balance 500, target 1000, no entries: progress 0.
C7_Witness ==
    /\ view.rendered
    /\ view.sb = 500
    /\ view.tb = 1000
    /\ RowsOf(load_df, view.account) = <<>>
    /\ view.current_balance = 500
    /\ view.pct_to_target = 0

\* C8: whatever the interleaving of two sessions, a mutation takes the
\* ledger file from its state just before the write to that state with the
\* one mutation applied.
C8_MutationsApplyToCurrentFile ==
    [][\A s \in Sessions, sel \in Range(DEFAULT_ACCOUNTS) :
          /\ \A d \in DateInputs, pl \in PLInputs :
                 SAddEntry(s, sel, d, pl)
                     => csv_file' = to_csv(Append(load_df, NewRow(d, sel, pl)))
          /\ (SUndo(s, sel) /\ UndoIndex(sess[s].df_all, sel) # 0)
                 => /\ UndoIndex(load_df, sel) # 0
                    /\ csv_file' = to_csv(RemoveAt(load_df, UndoIndex(load_df, sel)))
          /\ SReset(s, sel)
                 => csv_file' = to_csv(WithoutAccount(load_df, sel))]_vars

\* C9: an add entry, undo or confirmed reset run with one account selected
\* leaves the rows of every other registered account as they were, and a
\* reset without the box checked leaves the whole ledger file as it was.
C9_OtherAccountsUntouched ==
    [][/\ (~view'.rendered /\ view'.after \in {"add_entry", "undo", "reset"})
            => \A b \in Registered \ {selected_account} :
                   RowsOnDisk(csv_file', b) = RowsOnDisk(csv_file, b)
       /\ (RunReset(FALSE) /\ view'.rendered) => csv_file' = csv_file]_vars

\* C10: the account list holds no identifier twice and account_cfg has a
\* config for exactly the registered accounts.
C10_RegistryMatchesConfig ==
    /\ \A i, j \in 1..Len(settings_file.accounts) :
           settings_file.accounts[i] = settings_file.accounts[j] => i = j
    /\ DOMAIN settings_file.account_cfg = Registered

=============================================================================
